---- MODULE Spec2Model ----
(***************************************************************************)
(* Model of src/teams.rs: the rfcbot configuration (rfcbot.toml), its      *)
(* parse into RfcbotConfig, the validation of team members against the     *)
(* githubuser table, the lazily initialised SETUP singleton, and the       *)
(* query accessors of RfcbotConfig.                                        *)
(*                                                                         *)
(* Strings that are map keys (team labels, repository identifiers) are     *)
(* sequences of character codes, so that the ordering of BTreeMap<String,  *)
(* _> is computed and not assumed.  A BTreeMap is the sequence of its      *)
(* (key, value) pairs in ascending key order.  Option<T> is a record with  *)
(* a field `some`.                                                         *)
(***************************************************************************)
EXTENDS Naturals, Integers, Sequences, FiniteSets, TLC

VARIABLES
    doc,        \* the text of rfcbot.toml, as its declared structure
    store,      \* logins that have a row in the githubuser table
    once,       \* state of the Once guarding SETUP
    setup,      \* Option: the value stored in SETUP
    attempts,   \* number of runs of read_rfcbot_cfg_validated()
    pc,         \* per thread: position in the access of SETUP
    got,        \* per thread: Option, the &RfcbotConfig the access returned
    cfg,        \* Option: the RfcbotConfig read from doc
    ti,         \* position of for_each in cfg.teams.values() (1-based)
    mi,         \* position of the for loop in member_logins() (1-based)
    cur,        \* the running invocation of Team::validate()
    calls,      \* finished invocations of Team::validate(), in order
    errlog,     \* messages written by error!
    panicMsg,   \* Option: the message of the panic raised by expect
    pdecl,      \* a ProhibitedReactions table as declared in the document
    policy,     \* Option: the ProhibitedReactions deserialized from pdecl
    out         \* results of the accessor calls made so far, in order

vars ==
    <<doc, store, once, setup, attempts, pc, got, cfg, ti, mi, cur, calls,
      errlog, panicMsg, pdecl, policy, out>>

loadVars ==
    <<store, once, setup, attempts, pc, got, ti, mi, cur, calls, errlog,
      panicMsg>>

reactVars ==
    <<pdecl, policy>>

----------------------------------------------------------------------------
(* Bounds of the model.                                                    *)

NumThreads ==
    2

MaxTeams ==
    2

MaxMembers ==
    2

MaxRepos ==
    2

MaxQueries ==
    2

\* Team labels and repository identifiers used in the documents: the
\* strings "a", "ab" and "b" as character codes (1 = 'a', 2 = 'b').
Keys ==
    {<<1>>, <<1, 2>>, <<2>>}

\* The team labels of the documents that are loaded into SETUP: "ab", "b".
LoadLabels ==
    {<<1, 2>>, <<2>>}

Logins ==
    {"hulk", "thor"}

Threads ==
    1..NumThreads

----------------------------------------------------------------------------
(* Option<T>.                                                              *)

None ==
    [some |-> FALSE]

Some(x) ==
    [some |-> TRUE, val |-> x]

\* Variant: shorter strings first, then byte-wise (length-first ordering).
RECURSIVE StrLessShortlex(_, _)
StrLessShortlex(a, b) ==
    IF Len(a) # Len(b) THEN Len(a) < Len(b)
    ELSE IF a = <<>> THEN FALSE
    ELSE IF Head(a) < Head(b) THEN TRUE
    ELSE IF Head(a) > Head(b) THEN FALSE
    ELSE StrLessShortlex(Tail(a), Tail(b))

(* String ordering (Ord for String): byte-wise lexicographic, a proper     *)
(* prefix is smaller.                                                      *)
RECURSIVE StrLess(_, _)
StrLess(a, b) ==
    IF a = <<>> THEN b # <<>>
    ELSE IF b = <<>> THEN FALSE
    ELSE IF Head(a) < Head(b) THEN TRUE
    ELSE IF Head(a) > Head(b) THEN FALSE
    ELSE StrLess(Tail(a), Tail(b))

\* Variant: a map that keeps the order of insertion.
BTreeInsertAppend(m, k, v) ==
    IF \E i \in 1..Len(m) : m[i].key = k
    THEN [i \in 1..Len(m) |-> IF m[i].key = k THEN [key |-> k, value |-> v] ELSE m[i]]
    ELSE Append(m, [key |-> k, value |-> v])

(* BTreeMap::insert on the sorted sequence of entries: replaces the value  *)
(* of an equal key, otherwise places the entry before the first greater    *)
(* key.                                                                    *)
RECURSIVE BTreeInsert(_, _, _)
BTreeInsert(m, k, v) ==
    IF m = <<>> THEN <<[key |-> k, value |-> v]>>
    ELSE IF Head(m).key = k THEN <<[key |-> k, value |-> v]>> \o Tail(m)
    ELSE IF StrLess(k, Head(m).key) THEN <<[key |-> k, value |-> v]>> \o m
    ELSE <<Head(m)>> \o BTreeInsert(Tail(m), k, v)

(* BTreeMap::get: the value stored under exactly the key k.                *)
RECURSIVE BTreeGet(_, _)
BTreeGet(m, k) ==
    IF m = <<>> THEN None
    ELSE IF Head(m).key = k THEN Some(Head(m).value)
    ELSE BTreeGet(Tail(m), k)

BTreeKeys(m) ==
    [i \in 1..Len(m) |-> m[i].key]

BTreeValues(m) ==
    [i \in 1..Len(m) |-> m[i].value]

BTreeIter(m) ==
    [i \in 1..Len(m) |-> <<m[i].key, m[i].value>>]

----------------------------------------------------------------------------
(* Reactions and ProhibitedReactions.                                      *)

\* Variant: the reactions in alphabetical order.
ReactionOrderAlphabetical ==
    <<"Confused", "Downvote", "Heart", "Hooray", "Laugh", "Upvote">>

\* The array literal iterated by prohibited_reactions().
ReactionOrder ==
    <<"Upvote", "Downvote", "Laugh", "Hooray", "Confused", "Heart">>

FlagNames ==
    {"up_vote", "down_vote", "laugh", "hooray", "confused", "heart"}

\* #[derive(Default)] for ProhibitedReactions.
DefaultProhibitedReactions ==
    [up_vote |-> FALSE, down_vote |-> FALSE, laugh |-> FALSE,
     hooray |-> FALSE, confused |-> FALSE, heart |-> FALSE]

(* Deserialize with #[serde(default)]: start from the default and set the  *)
(* fields the table declares; decl is the sequence of <<field, value>>     *)
(* pairs in the order of the document.                                     *)
RECURSIVE SetFields(_, _)
SetFields(self, decl) ==
    IF decl = <<>> THEN self
    ELSE SetFields([self EXCEPT ![Head(decl)[1]] = Head(decl)[2]], Tail(decl))

DeserializeProhibited(decl) ==
    SetFields(DefaultProhibitedReactions, decl)

is_reaction_prohibited(self, reaction) ==
    CASE reaction = "Upvote" -> self.up_vote
      [] reaction = "Downvote" -> self.down_vote
      [] reaction = "Laugh" -> self.laugh
      [] reaction = "Hooray" -> self.hooray
      [] reaction = "Confused" -> self.confused
      [] reaction = "Heart" -> self.heart

prohibited_reactions(self) ==
    SelectSeq(ReactionOrder, LAMBDA reaction : is_reaction_prohibited(self, reaction))

\* #[derive(Default)] for ReactionBehaviorConfig.
DefaultReactionBehaviorConfig ==
    [issue |-> DefaultProhibitedReactions, comment |-> DefaultProhibitedReactions]

\* Deserialize with #[serde(default)]: an omitted policy is the default.
DeserializeReactionBehavior(e) ==
    [issue |-> IF e.issue.some THEN DeserializeProhibited(e.issue.val)
               ELSE DefaultReactionBehaviorConfig.issue,
     comment |-> IF e.comment.some THEN DeserializeProhibited(e.comment.val)
                 ELSE DefaultReactionBehaviorConfig.comment]

\* Deserialize for FcpBehavior: #[serde(default)] on both fields.
DeserializeFcpBehavior(e) ==
    [close |-> IF e.close.some THEN e.close.val ELSE FALSE,
     postpone |-> IF e.postpone.some THEN e.postpone.val ELSE FALSE]

\* Deserialize for Team: only `members` is kept.
DeserializeTeam(e) ==
    [members |-> e.members.val]

Team_member_logins(self) ==
    self.members

----------------------------------------------------------------------------
(* Parsing the document.                                                   *)

\* A section of the document becomes a BTreeMap: its entries are inserted
\* in the order of the document.
RECURSIVE CollectMap(_, _)
CollectMap(entries, acc) ==
    IF entries = <<>> THEN acc
    ELSE CollectMap(Tail(entries), BTreeInsert(acc, Head(entries).key, Head(entries).value))

ReactionEntries(section) ==
    [i \in 1..Len(section) |->
        [key |-> section[i].key, value |-> DeserializeReactionBehavior(section[i])]]

FcpEntries(section) ==
    [i \in 1..Len(section) |->
        [key |-> section[i].key, value |-> DeserializeFcpBehavior(section[i])]]

TeamEntries(section) ==
    [i \in 1..Len(section) |->
        [key |-> section[i].key, value |-> DeserializeTeam(section[i])]]

\* toml::from_str fails on malformed text, on an omitted section (the three
\* fields of RfcbotConfig have no default) and on a team without `members`.
DocParses(input) ==
    /\ input.syntax_ok
    /\ input.prohibited_reactions.some
    /\ input.fcp_behaviors.some
    /\ input.teams.some
    /\ \A i \in 1..Len(input.teams.val) : input.teams.val[i].members.some

\* read_rfcbot_cfg_from: None stands for the panic of expect.
read_rfcbot_cfg_from(input) ==
    IF ~DocParses(input) THEN None
    ELSE Some([prohibited_reactions |->
                   CollectMap(ReactionEntries(input.prohibited_reactions.val), <<>>),
               fcp_behaviors |->
                   CollectMap(FcpEntries(input.fcp_behaviors.val), <<>>),
               teams |->
                   CollectMap(TeamEntries(input.teams.val), <<>>)])

----------------------------------------------------------------------------
(* The documents the model is run on.                                      *)

SeqsUpTo(S, n) ==
    UNION {[1..k -> S] : k \in 0..n}

\* Sequences of at most n entries <<key, content>> with pairwise different
\* keys.
RECURSIVE Sections(_, _, _)
Sections(keys, contents, n) ==
    IF n = 0 THEN {<<>>}
    ELSE {<<>>} \cup
         UNION {{<<<<k, v>>>> \o rest : v \in contents,
                                       rest \in Sections(keys \ {k}, contents, n - 1)}
                : k \in keys}

MkTeam(section) ==
    [i \in 1..Len(section) |-> [key |-> section[i][1], members |-> section[i][2]]]

TeamSections(labels) ==
    {MkTeam(section) :
        section \in Sections(labels, {None} \cup {Some(ms) : ms \in SeqsUpTo(Logins, MaxMembers)},
                             MaxTeams)}

EmptyDoc ==
    [syntax_ok |-> TRUE, prohibited_reactions |-> Some(<<>>),
     fcp_behaviors |-> Some(<<>>), teams |-> Some(<<>>)]

TeamDocs(labels) ==
    {[EmptyDoc EXCEPT !.teams = Some(ts)] : ts \in TeamSections(labels)}
    \cup {[EmptyDoc EXCEPT !.syntax_ok = FALSE], [EmptyDoc EXCEPT !.teams = None]}

----------------------------------------------------------------------------
(* Loading: SETUP, read_rfcbot_cfg_validated and Team::validate.           *)

\* Variant: an unguarded lazy initialisation, every caller that finds SETUP
\* not yet initialised runs the initializer.
OnceRunsInitializerUnguarded(state) ==
    state # "Complete"

\* Once::call_once runs the initializer only for the first caller.
OnceRunsInitializer(state) ==
    state = "Incomplete"

\* DB_POOL.get(): the pool hands out a connection or reports an error.
PoolGet ==
    {"Conn", "PoolError"}

\* githubuser.filter(login.eq(member_login)).first(conn): the row when there
\* is one, NotFound when there is none, or an error of the database.
FirstByLogin(users, member_login) ==
    {IF member_login \in users THEN "Found" ELSE "NotFound", "DatabaseError"}

\* Variant: only an error of the database is an error, NotFound passes.
IsErrOnlyDatabase(check_login) ==
    check_login = "DatabaseError"

\* Variant: the arms of ok_or! exchanged.
IsErrInverted(check_login) ==
    check_login = "Found"

\* ok_or!: the Err arm is taken for every result that is not a user.
IsErr(check_login) ==
    check_login # "Found"

\* Variant: the log line names no login.
ErrorLineNoLogin(member_login, why) ==
    <<"unable to find a team member in database: ", why>>

\* error!("unable to find {} in database: {:?}", member_login, why).
ErrorLine(member_login, why) ==
    <<"unable to find ", member_login, " in database: ", why>>

\* Result::expect(msg) on Err(e) panics with msg followed by {:?} of e.
ExpectPanic(msg, e) ==
    <<msg, ": ", e>>

\* Variant: only the first team is handed to validate().
TeamsValuesFirstOnly(c) ==
    IF c.teams = <<>> THEN <<>> ELSE <<c.teams[1].value>>

\* cfg.teams.values(): the teams in the iteration order of the BTreeMap.
TeamsValues(c) ==
    BTreeValues(c.teams)

LoadInit ==
    /\ doc \in TeamDocs(LoadLabels)
    /\ store \in SUBSET Logins
    /\ once = "Incomplete"
    /\ setup = None
    /\ attempts = 0
    /\ pc = [t \in Threads |-> "start"]
    /\ got = [t \in Threads |-> None]
    /\ cfg = None
    /\ ti = 0
    /\ mi = 0
    /\ cur = None
    /\ calls = <<>>
    /\ errlog = <<>>
    /\ panicMsg = None
    /\ pdecl = <<>>
    /\ policy = None
    /\ out = <<>>

\* A thread dereferences SETUP: the first one runs the initializer, the
\* others wait for it.
CallOnce(t) ==
    /\ pc[t] = "start"
    /\ IF OnceRunsInitializer(once)
       THEN /\ once' = "Running"
            /\ attempts' = attempts + 1
            /\ pc' = [pc EXCEPT ![t] = "read"]
       ELSE /\ pc' = [pc EXCEPT ![t] = "wait"]
            /\ UNCHANGED <<once, attempts>>
    /\ UNCHANGED <<doc, store, setup, got, cfg, ti, mi, cur, calls, errlog,
                   panicMsg, pdecl, policy, out>>

\* The initializer has completed: the waiting access returns &SETUP.
DerefReady(t) ==
    /\ pc[t] = "wait"
    /\ once = "Complete"
    /\ got' = [got EXCEPT ![t] = setup]
    /\ pc' = [pc EXCEPT ![t] = "done"]
    /\ UNCHANGED <<doc, store, once, setup, attempts, cfg, ti, mi, cur, calls,
                   errlog, panicMsg, pdecl, policy, out>>

\* The initializer has panicked: the Once is poisoned and the access panics.
DerefPoisoned(t) ==
    /\ pc[t] = "wait"
    /\ once = "Poisoned"
    /\ pc' = [pc EXCEPT ![t] = "panicked"]
    /\ UNCHANGED <<doc, store, once, setup, attempts, got, cfg, ti, mi, cur,
                   calls, errlog, panicMsg, pdecl, policy, out>>

\* let cfg = read_rfcbot_cfg();
ReadCfg(t) ==
    /\ pc[t] = "read"
    /\ LET r == read_rfcbot_cfg_from(doc) IN
       IF r.some
       THEN /\ cfg' = r
            /\ ti' = 1
            /\ pc' = [pc EXCEPT ![t] = "for_each"]
            /\ UNCHANGED <<once, panicMsg>>
       ELSE /\ panicMsg' = Some(ExpectPanic("couldn't parse rfcbot.toml!", "ParseError"))
            /\ once' = "Poisoned"
            /\ pc' = [pc EXCEPT ![t] = "panicked"]
            /\ UNCHANGED <<cfg, ti>>
    /\ UNCHANGED <<doc, store, setup, attempts, got, mi, cur, calls, errlog,
                   pdecl, policy, out>>

\* for_each calls validate() on the next team; validate() first takes a
\* connection from the pool and returns the error when there is none.
ValidateBegin(t) ==
    /\ pc[t] = "for_each"
    /\ ti <= Len(TeamsValues(cfg.val))
    /\ \E conn \in PoolGet :
          LET team == TeamsValues(cfg.val)[ti]
              call == [label |-> BTreeKeys(cfg.val.teams)[ti],
                       members |-> Team_member_logins(team),
                       lookups |-> <<>>]
          IN
          IF conn = "Conn"
          THEN /\ cur' = Some(call)
               /\ mi' = 1
               /\ pc' = [pc EXCEPT ![t] = "validate"]
               /\ UNCHANGED <<once, calls, panicMsg>>
          ELSE /\ calls' = Append(calls, call @@ [connected |-> FALSE, result |-> conn])
               /\ panicMsg' = Some(ExpectPanic("unable to verify team member from database.", conn))
               /\ once' = "Poisoned"
               /\ pc' = [pc EXCEPT ![t] = "panicked"]
               /\ UNCHANGED <<cur, mi>>
    /\ UNCHANGED <<doc, store, setup, attempts, got, cfg, ti, errlog, pdecl,
                   policy, out>>

\* One iteration of the for loop of validate(): look the login up; when no
\* user comes back, log, return the error, and expect() panics.
ValidateLookup(t) ==
    /\ pc[t] = "validate"
    /\ mi <= Len(cur.val.members)
    /\ LET member_login == cur.val.members[mi] IN
       \E check_login \in FirstByLogin(store, member_login) :
          LET call == [cur.val EXCEPT !.lookups =
                          Append(@, [login |-> member_login, result |-> check_login])]
          IN
          IF IsErr(check_login)
          THEN /\ errlog' = Append(errlog, ErrorLine(member_login, check_login))
               /\ calls' = Append(calls, call @@ [connected |-> TRUE, result |-> check_login])
               /\ cur' = None
               /\ panicMsg' = Some(ExpectPanic("unable to verify team member from database.", check_login))
               /\ once' = "Poisoned"
               /\ pc' = [pc EXCEPT ![t] = "panicked"]
               /\ UNCHANGED mi
          ELSE /\ cur' = Some(call)
               /\ mi' = mi + 1
               /\ UNCHANGED <<errlog, calls, panicMsg, once, pc>>
    /\ UNCHANGED <<doc, store, setup, attempts, got, cfg, ti, pdecl, policy, out>>

\* The for loop of validate() is exhausted: Ok(()).
ValidateOk(t) ==
    /\ pc[t] = "validate"
    /\ mi > Len(cur.val.members)
    /\ calls' = Append(calls, cur.val @@ [connected |-> TRUE, result |-> "Ok"])
    /\ cur' = None
    /\ ti' = ti + 1
    /\ pc' = [pc EXCEPT ![t] = "for_each"]
    /\ UNCHANGED <<doc, store, once, setup, attempts, got, cfg, mi, errlog,
                   panicMsg, pdecl, policy, out>>

\* for_each is exhausted: read_rfcbot_cfg_validated returns cfg, SETUP is
\* initialised and the access of the initializing thread returns it.
ReturnCfg(t) ==
    /\ pc[t] = "for_each"
    /\ ti > Len(TeamsValues(cfg.val))
    /\ setup' = Some([id |-> attempts, cfg |-> cfg.val])
    /\ once' = "Complete"
    /\ got' = [got EXCEPT ![t] = setup']
    /\ pc' = [pc EXCEPT ![t] = "done"]
    /\ UNCHANGED <<doc, store, attempts, cfg, ti, mi, cur, calls, errlog,
                   panicMsg, pdecl, policy, out>>

LoadNext ==
    \E t \in Threads :
        \/ CallOnce(t)
        \/ DerefReady(t)
        \/ DerefPoisoned(t)
        \/ ReadCfg(t)
        \/ ValidateBegin(t)
        \/ ValidateLookup(t)
        \/ ValidateOk(t)
        \/ ReturnCfg(t)

Spec ==
    LoadInit /\ [][LoadNext]_vars

----------------------------------------------------------------------------
(* Properties of loading.                                                  *)

Last(s) ==
    s[Len(s)]

\* Lexicographic order of strings, stated directly: a and b agree before
\* position i, and there a ends or has the smaller character.
LexLT(a, b) ==
    \E i \in 1..Len(b) :
        /\ i <= Len(a) + 1
        /\ \A j \in 1..(i - 1) : a[j] = b[j]
        /\ (i = Len(a) + 1 \/ a[i] < b[i])

\* The document declares a team one of whose logins has no row in store.
DeclaresUnknownLogin(e) ==
    /\ e.members.some
    /\ \E j \in 1..Len(e.members.val) : e.members.val[j] \notin store

SomeTeamUnknown ==
    /\ doc.teams.some
    /\ \E i \in 1..Len(doc.teams.val) : DeclaresUnknownLogin(doc.teams.val[i])

Available ==
    setup.some \/ \E t \in Threads : got[t].some

\* Every lookup of the call returned a user.
AllFound(call) ==
    \A j \in 1..Len(call.lookups) : call.lookups[j].result = "Found"

\* The call looked up exactly the first n logins of its team, in order.
LooksUpPrefix(call, n) ==
    /\ Len(call.lookups) = n
    /\ n <= Len(call.members)
    /\ \A j \in 1..n : call.lookups[j].login = call.members[j]

\* C1: the configuration is available only if the document parsed and
\* validate() succeeded for every team, every login of every team having
\* been found in the store; when the parse fails or some team has a login
\* the store does not have, no configuration is ever available.
C1_AvailableOnlyValidated ==
    /\ Available =>
          /\ setup.some
          /\ DocParses(doc)
          /\ Len(setup.val.cfg.teams) = Len(doc.teams.val)
          /\ \A i \in 1..Len(doc.teams.val) :
                \E c \in 1..Len(calls) :
                   /\ calls[c].label = doc.teams.val[i].key
                   /\ calls[c].members = doc.teams.val[i].members.val
                   /\ calls[c].result = "Ok"
                   /\ LooksUpPrefix(calls[c], Len(calls[c].members))
                   /\ AllFound(calls[c])
                   /\ \A j \in 1..Len(calls[c].members) : calls[c].members[j] \in store
    /\ (~DocParses(doc) \/ SomeTeamUnknown) => ~Available

C1_Witness ==
    /\ setup.some
    /\ Len(setup.val.cfg.teams) = 2
    /\ \A i \in 1..2 : Len(setup.val.cfg.teams[i].value.members) = 2

\* The lookups of a finished call are exactly the prefix of its member list
\* up to and including the first login for which no user came back, or the
\* whole list when every login was found.
ExactPrefix(call) ==
    /\ LooksUpPrefix(call, Len(call.lookups))
    /\ \A j \in 1..(Len(call.lookups) - 1) : call.lookups[j].result = "Found"
    /\ AllFound(call) => Len(call.lookups) = Len(call.members)
    /\ \A j \in 1..Len(call.lookups) :
          /\ call.lookups[j].result = "Found" => call.lookups[j].login \in store
          /\ call.lookups[j].result = "NotFound" => call.lookups[j].login \notin store

\* C2 as stated: every invocation of validate() looks up exactly the prefix
\* of the member list up to and including the first login for which no user
\* came back, or the whole list when every login was found.
C2_AsStated ==
    \A c \in 1..Len(calls) : ExactPrefix(calls[c])

\* C2, amended: the same for every invocation that obtained a connection
\* from the pool, which returns Ok exactly when every lookup returned a user
\* and otherwise the failure of its last lookup; an invocation that did not
\* obtain a connection returns the error of the pool and looks nothing up.
\* While an invocation runs, its lookups are a prefix of the member list and
\* all of them returned a user.
C2_LookupsArePrefix ==
    /\ \A c \in 1..Len(calls) :
          IF calls[c].connected
          THEN /\ ExactPrefix(calls[c])
               /\ calls[c].result = "Ok" <=> AllFound(calls[c])
               /\ calls[c].result # "Ok" =>
                     /\ Len(calls[c].lookups) >= 1
                     /\ Last(calls[c].lookups).result = calls[c].result
          ELSE calls[c].lookups = <<>> /\ calls[c].result = "PoolError"
    /\ cur.some => LooksUpPrefix(cur.val, Len(cur.val.lookups)) /\ AllFound(cur.val)

C2_Witness ==
    \E c \in 1..Len(calls) :
        /\ calls[c].connected
        /\ Len(calls[c].members) = 2
        /\ calls[c].members[1] = calls[c].members[2]
        /\ Len(calls[c].lookups) = 1
        /\ calls[c].result = "NotFound"

\* C3: whatever the interleaving of the threads, the initializer runs exactly
\* once; every access that returned yields the instance stored in SETUP; and
\* when the initializer failed no access returns an instance.
C3_ConstructedOnce ==
    /\ attempts <= 1
    /\ (\E t \in Threads : pc[t] # "start") => attempts = 1
    /\ \A t \in Threads :
          got[t].some => once = "Complete" /\ setup.some /\ got[t] = setup
    /\ \A t, u \in Threads :
          got[t].some /\ got[u].some => got[t].val.id = got[u].val.id
    /\ (panicMsg.some \/ once = "Poisoned") => ~Available

C3_Witness ==
    /\ attempts = 1
    /\ \A t \in Threads : pc[t] = "done" /\ got[t].some

\* The invocation ended because a lookup returned no user.
LookupFailed(call) ==
    call.connected /\ call.result # "Ok"

\* Team labels as text.
Chars ==
    <<"a", "b">>

RECURSIVE Text(_)
Text(k) ==
    IF k = <<>> THEN "" ELSE Chars[Head(k)] \o Text(Tail(k))

Mentions(message, text) ==
    \E i \in 1..Len(message) : message[i] = text

\* C4 as stated: when validation fails on a lookup, the error surfaced names
\* the offending login and the team it belongs to, and carries the failure
\* of the store.
C4_AsStated ==
    \A c \in 1..Len(calls) :
        LookupFailed(calls[c]) =>
            /\ errlog # <<>>
            /\ Mentions(Last(errlog), Last(calls[c].lookups).login)
            /\ Mentions(Last(errlog), calls[c].result)
            /\ (Mentions(Last(errlog), Text(calls[c].label))
                \/ Mentions(panicMsg.val, Text(calls[c].label)))

\* C4, amended: when validation fails on a lookup, exactly one line is
\* logged, naming the offending login and the failure of the store; the
\* error returned, shown by the panic, is that failure of the store.  No
\* message names the team.
C4_ErrorNamesLogin ==
    \A c \in 1..Len(calls) :
        LookupFailed(calls[c]) =>
            /\ Len(errlog) = 1
            /\ Len(calls[c].lookups) >= 1
            /\ Mentions(errlog[1], calls[c].members[Len(calls[c].lookups)])
            /\ Mentions(errlog[1], calls[c].result)
            /\ calls[c].result \in {"NotFound", "DatabaseError"}
            /\ panicMsg.some
            /\ Mentions(panicMsg.val, calls[c].result)
            /\ ~Mentions(errlog[1], Text(calls[c].label))
            /\ ~Mentions(panicMsg.val, Text(calls[c].label))

C4_Witness ==
    /\ Len(calls) = 2
    /\ LookupFailed(calls[2])
    /\ Len(calls[2].lookups) = 2
    /\ Len(errlog) = 1

\* A step of Team::validate().
ValidateStep ==
    \E t \in Threads : ValidateBegin(t) \/ ValidateLookup(t) \/ ValidateOk(t)

\* Every login of the team has a row in the store.
AllKnown(call) ==
    \A j \in 1..Len(call.members) : call.members[j] \in store

\* C9 as stated: whenever every login of the team is in the store,
\* validate() returns Ok.
C9_AsStated ==
    \A c \in 1..Len(calls) : AllKnown(calls[c]) => calls[c].result = "Ok"

\* C9, amended: whenever the invocation obtained a connection, every login
\* of the team is in the store and no lookup ended in an error of the
\* database, validate() returns Ok, also for a team without members; an
\* invocation that returns Ok has logged nothing and raised no panic; and no
\* step of validate() changes the document, the configuration read from it,
\* SETUP or the store.
C9_ValidateOkNoEffect ==
    [][ValidateStep =>
          /\ UNCHANGED <<doc, cfg, setup, store>>
          /\ \A c \in 1..Len(calls') :
                (/\ calls'[c].connected
                 /\ AllKnown(calls'[c])
                 /\ \A j \in 1..Len(calls'[c].lookups) :
                       calls'[c].lookups[j].result # "DatabaseError")
                => calls'[c].result = "Ok"
          /\ (calls' # calls /\ Last(calls').result = "Ok") =>
                (errlog' = <<>> /\ ~panicMsg'.some /\ once' = "Running")]_vars

C9_Witness ==
    /\ Len(calls) = 2
    /\ calls[1].result = "Ok" /\ calls[1].members = <<>>
    /\ calls[2].result = "Ok" /\ Len(calls[2].lookups) = 2

\* Loading failed in the validation of a team.
ValidationFailed ==
    calls # <<>> /\ Last(calls).result # "Ok"

\* The labels of the teams for which validate() was invoked, in order.
ValidatedLabels ==
    [c \in 1..Len(calls) |-> calls[c].label] \o (IF cur.some THEN <<cur.val.label>> ELSE <<>>)

DeclaredLabels ==
    IF DocParses(doc) THEN {doc.teams.val[i].key : i \in 1..Len(doc.teams.val)} ELSE {}

\* Teams are validated in ascending label order without leaving one out,
\* and nothing is validated after a failed invocation.
AscendingUntilFailure ==
    /\ \A i, j \in 1..Len(ValidatedLabels) :
          i < j => LexLT(ValidatedLabels[i], ValidatedLabels[j])
    /\ \A i \in 1..Len(ValidatedLabels) :
          /\ ValidatedLabels[i] \in DeclaredLabels
          /\ \A k \in DeclaredLabels :
                LexLT(k, ValidatedLabels[i]) =>
                    \E j \in 1..(i - 1) : ValidatedLabels[j] = k
    /\ \A c \in 1..(Len(calls) - 1) : calls[c].result = "Ok"
    /\ ValidationFailed => ~cur.some /\ panicMsg.some /\ ~Available

\* The declared team with the smallest label among those with a login that
\* is not in the store.
IsSmallestUnknown(e) ==
    /\ DeclaresUnknownLogin(e)
    /\ \A i \in 1..Len(doc.teams.val) :
          DeclaresUnknownLogin(doc.teams.val[i]) =>
              (doc.teams.val[i].key = e.key \/ LexLT(e.key, doc.teams.val[i].key))

\* The first login of the team that is not in the store.
FirstUnknown(e) ==
    e.members.val[CHOOSE j \in 1..Len(e.members.val) :
                     /\ e.members.val[j] \notin store
                     /\ \A h \in 1..(j - 1) : e.members.val[h] \in store]

\* C10 as stated: teams are validated in ascending label order and loading
\* stops at the first failing team; when teams contain unknown logins, the
\* failure reported is that of the first unknown login of the smallest such
\* team, and nothing is looked up for a team with a greater label.
C10_AsStated ==
    /\ AscendingUntilFailure
    /\ (ValidationFailed /\ DocParses(doc) /\ SomeTeamUnknown) =>
          \A i \in 1..Len(doc.teams.val) :
             IsSmallestUnknown(doc.teams.val[i]) =>
                /\ Last(calls).label = doc.teams.val[i].key
                /\ errlog = <<ErrorLine(FirstUnknown(doc.teams.val[i]), "NotFound")>>
                /\ \A c \in 1..Len(calls) :
                      ~LexLT(doc.teams.val[i].key, calls[c].label)

\* C10, amended: teams are validated in ascending label order and loading
\* stops at the first team whose validate() fails, be it for a connection
\* that the pool did not give, an error of the database or an unknown login;
\* the failure reported is that of this invocation, whose last lookup is the
\* first of the team that returned no user; no team with a greater label is
\* looked up, and no team beyond the smallest one with an unknown login is
\* ever validated.
C10_AscendingStopAtFirstFailure ==
    /\ AscendingUntilFailure
    /\ ValidationFailed =>
          /\ panicMsg.val = ExpectPanic("unable to verify team member from database.",
                                        Last(calls).result)
          /\ \A c \in 1..Len(calls) : ~LexLT(Last(calls).label, calls[c].label)
          /\ IF Last(calls).connected
             THEN /\ errlog = <<ErrorLine(Last(Last(calls).lookups).login, Last(calls).result)>>
                  /\ ExactPrefix(Last(calls))
             ELSE errlog = <<>>
    /\ (DocParses(doc) /\ SomeTeamUnknown) =>
          \A i \in 1..Len(doc.teams.val) :
             IsSmallestUnknown(doc.teams.val[i]) =>
                /\ \A j \in 1..Len(ValidatedLabels) :
                      ~LexLT(doc.teams.val[i].key, ValidatedLabels[j])
                /\ (ValidationFailed
                    /\ Last(calls).label = doc.teams.val[i].key
                    /\ Last(calls).result = "NotFound") =>
                       Last(Last(calls).lookups).login = FirstUnknown(doc.teams.val[i])

C10_Witness ==
    /\ DocParses(doc)
    /\ Len(doc.teams.val) = 2
    /\ LexLT(doc.teams.val[2].key, doc.teams.val[1].key)
    /\ \A i \in 1..2 : DeclaresUnknownLogin(doc.teams.val[i])
    /\ ValidationFailed
    /\ Len(calls) = 1
    /\ calls[1].label = doc.teams.val[2].key
    /\ calls[1].result = "NotFound"
    /\ Len(calls[1].lookups) = 2

----------------------------------------------------------------------------
(* The accessors of RfcbotConfig.                                          *)

team_labels(self) ==
    BTreeKeys(self.teams)

teams(self) ==
    BTreeIter(self.teams)

\* Option::unwrap_or_default for bool.
UnwrapOrFalse(o) ==
    IF o.some THEN o.val ELSE FALSE

\* Option::unwrap_or_default for ReactionVec.
UnwrapOrEmpty(o) ==
    IF o.some THEN o.val ELSE <<>>

\* .map(|fcp| fcp.close)
MapClose(o) ==
    IF o.some THEN Some(o.val.close) ELSE None

\* .map(|fcp| fcp.postpone)
MapPostpone(o) ==
    IF o.some THEN Some(o.val.postpone) ELSE None

should_ffcp_auto_close(self, repo) ==
    UnwrapOrFalse(MapClose(BTreeGet(self.fcp_behaviors, repo)))

\* Variant: the accessor reads the field `close`.
should_ffcp_auto_postpone_reads_close(self, repo) ==
    UnwrapOrFalse(MapClose(BTreeGet(self.fcp_behaviors, repo)))

should_ffcp_auto_postpone(self, repo) ==
    UnwrapOrFalse(MapPostpone(BTreeGet(self.fcp_behaviors, repo)))

\* .map(|rb| rb.issue.prohibited_reactions())
MapIssue(o) ==
    IF o.some THEN Some(prohibited_reactions(o.val.issue)) ELSE None

\* .map(|rb| rb.comment.prohibited_reactions())
MapComment(o) ==
    IF o.some THEN Some(prohibited_reactions(o.val.comment)) ELSE None

prohibited_issue_reactions(self, repo) ==
    UnwrapOrEmpty(MapIssue(BTreeGet(self.prohibited_reactions, repo)))

\* Variant: the accessor reads the policy for issues.
prohibited_comment_reactions_reads_issue(self, repo) ==
    UnwrapOrEmpty(MapIssue(BTreeGet(self.prohibited_reactions, repo)))

prohibited_comment_reactions(self, repo) ==
    UnwrapOrEmpty(MapComment(BTreeGet(self.prohibited_reactions, repo)))

----------------------------------------------------------------------------
(* Calling the accessors on a configuration read with                      *)
(* read_rfcbot_cfg_from, as the test setup_parser_correct does.            *)

\* The variables of loading, at rest.
NotLoading ==
    /\ store = {}
    /\ once = "Incomplete"
    /\ setup = None
    /\ attempts = 0
    /\ pc = [t \in Threads |-> "start"]
    /\ got = [t \in Threads |-> None]
    /\ ti = 0
    /\ mi = 0
    /\ cur = None
    /\ calls = <<>>
    /\ errlog = <<>>
    /\ panicMsg = None

\* let cfg = read_rfcbot_cfg_from(test);
ParseDoc ==
    /\ ~cfg.some
    /\ read_rfcbot_cfg_from(doc).some
    /\ cfg' = read_rfcbot_cfg_from(doc)
    /\ UNCHANGED <<doc, out>>
    /\ UNCHANGED loadVars
    /\ UNCHANGED reactVars

\* The frame of an accessor call: the call is recorded, nothing else changes.
AccessorFrame ==
    /\ UNCHANGED <<doc, cfg>>
    /\ UNCHANGED loadVars
    /\ UNCHANGED reactVars

CallTeamLabels ==
    /\ cfg.some
    /\ Len(out) < MaxQueries
    /\ out' = Append(out, [op |-> "team_labels", result |-> team_labels(cfg.val)])
    /\ AccessorFrame

CallTeams ==
    /\ cfg.some
    /\ Len(out) < MaxQueries
    /\ out' = Append(out, [op |-> "teams", result |-> teams(cfg.val)])
    /\ AccessorFrame

CallShouldFfcpAutoClose(repo) ==
    /\ cfg.some
    /\ Len(out) < MaxQueries
    /\ out' = Append(out, [op |-> "should_ffcp_auto_close", repo |-> repo,
                           result |-> should_ffcp_auto_close(cfg.val, repo)])
    /\ AccessorFrame

CallShouldFfcpAutoPostpone(repo) ==
    /\ cfg.some
    /\ Len(out) < MaxQueries
    /\ out' = Append(out, [op |-> "should_ffcp_auto_postpone", repo |-> repo,
                           result |-> should_ffcp_auto_postpone(cfg.val, repo)])
    /\ AccessorFrame

CallProhibitedIssueReactions(repo) ==
    /\ cfg.some
    /\ Len(out) < MaxQueries
    /\ out' = Append(out, [op |-> "prohibited_issue_reactions", repo |-> repo,
                           result |-> prohibited_issue_reactions(cfg.val, repo)])
    /\ AccessorFrame

CallProhibitedCommentReactions(repo) ==
    /\ cfg.some
    /\ Len(out) < MaxQueries
    /\ out' = Append(out, [op |-> "prohibited_comment_reactions", repo |-> repo,
                           result |-> prohibited_comment_reactions(cfg.val, repo)])
    /\ AccessorFrame

\* Teams.
TeamsInit ==
    /\ doc \in TeamDocs(Keys)
    /\ cfg = None
    /\ out = <<>>
    /\ pdecl = <<>>
    /\ policy = None
    /\ NotLoading

TeamsNext ==
    \/ ParseDoc
    \/ CallTeamLabels
    \/ CallTeams

SpecTeams ==
    TeamsInit /\ [][TeamsNext]_vars

\* FCP behaviors.
OptBool ==
    {None, Some(TRUE), Some(FALSE)}

MkFcp(section) ==
    [i \in 1..Len(section) |->
        [key |-> section[i][1], close |-> section[i][2][1], postpone |-> section[i][2][2]]]

FcpSections ==
    {MkFcp(section) : section \in Sections(Keys, OptBool \X OptBool, MaxRepos)}

FcpInit ==
    /\ doc \in {[EmptyDoc EXCEPT !.fcp_behaviors = Some(fs)] : fs \in FcpSections}
    /\ cfg = None
    /\ out = <<>>
    /\ pdecl = <<>>
    /\ policy = None
    /\ NotLoading

FcpNext ==
    \/ ParseDoc
    \/ \E repo \in Keys : CallShouldFfcpAutoClose(repo)
    \/ \E repo \in Keys : CallShouldFfcpAutoPostpone(repo)

SpecFcp ==
    FcpInit /\ [][FcpNext]_vars

\* Prohibited reactions per repository.  The policies declared in the
\* tables of this specification; SpecPolicy runs over all declarations.
TablePolicies ==
    {None,
     Some(<<<<"down_vote", TRUE>>, <<"confused", FALSE>>>>),
     Some(<<<<"heart", TRUE>>, <<"down_vote", TRUE>>, <<"confused", TRUE>>>>)}

MkReactionBehavior(section) ==
    [i \in 1..Len(section) |->
        [key |-> section[i][1], issue |-> section[i][2][1], comment |-> section[i][2][2]]]

ReactionSections ==
    {MkReactionBehavior(section) :
        section \in Sections(Keys, TablePolicies \X TablePolicies, MaxRepos)}

ReactionsInit ==
    /\ doc \in {[EmptyDoc EXCEPT !.prohibited_reactions = Some(rs)] : rs \in ReactionSections}
    /\ cfg = None
    /\ out = <<>>
    /\ pdecl = <<>>
    /\ policy = None
    /\ NotLoading

ReactionsNext ==
    \/ ParseDoc
    \/ \E repo \in Keys : CallProhibitedIssueReactions(repo)
    \/ \E repo \in Keys : CallProhibitedCommentReactions(repo)

SpecReactions ==
    ReactionsInit /\ [][ReactionsNext]_vars

\* One ProhibitedReactions table: every choice of declared fields, in every
\* order of declaration, with every choice of values (PolicyInit).  The
\* table that declares the fields o, in this order, with the values v:
Declaration(o, v) ==
    [i \in 1..Len(o) |-> <<o[i], v[i]>>]

IsOrder(o) ==
    \A i, j \in 1..Len(o) : i # j => o[i] # o[j]

DeserializePolicy ==
    /\ ~policy.some
    /\ policy' = Some(DeserializeProhibited(pdecl))
    /\ UNCHANGED <<doc, cfg, out, pdecl>>
    /\ UNCHANGED loadVars

CallProhibitedReactions ==
    /\ policy.some
    /\ Len(out) < MaxQueries
    /\ out' = Append(out, [op |-> "prohibited_reactions",
                           result |-> prohibited_reactions(policy.val)])
    /\ UNCHANGED <<doc, cfg>>
    /\ UNCHANGED loadVars
    /\ UNCHANGED reactVars

PolicyInit ==
    /\ \E k \in 0..Cardinality(FlagNames) :
          \E o \in [1..k -> FlagNames] :
             /\ IsOrder(o)
             /\ \E v \in [1..k -> BOOLEAN] : pdecl = Declaration(o, v)
    /\ policy = None
    /\ doc = EmptyDoc
    /\ cfg = None
    /\ out = <<>>
    /\ NotLoading

PolicyNext ==
    \/ DeserializePolicy
    \/ CallProhibitedReactions

SpecPolicy ==
    PolicyInit /\ [][PolicyNext]_vars

----------------------------------------------------------------------------
(* Properties of the accessors.                                            *)

\* The canonical order of the reactions, and the field of each.
CanonicalRank ==
    [Upvote |-> 1, Downvote |-> 2, Laugh |-> 3, Hooray |-> 4, Confused |-> 5, Heart |-> 6]

FlagOf ==
    [Upvote |-> "up_vote", Downvote |-> "down_vote", Laugh |-> "laugh",
     Hooray |-> "hooray", Confused |-> "confused", Heart |-> "heart"]

Reactions ==
    DOMAIN CanonicalRank

\* The declaration sets the field of the reaction to true.
DeclaredTrue(decl, reaction) ==
    \E i \in 1..Len(decl) : decl[i] = <<FlagOf[reaction], TRUE>>

\* The sequence holds exactly the reactions declared true, each once, in
\* canonical order.
IsDeclaredInCanonicalOrder(result, decl) ==
    /\ Len(result) <= 6
    /\ \A i \in 1..Len(result) : result[i] \in Reactions
    /\ \A r \in Reactions :
          DeclaredTrue(decl, r) <=> \E i \in 1..Len(result) : result[i] = r
    /\ \A i, j \in 1..Len(result) :
          i < j => CanonicalRank[result[i]] < CanonicalRank[result[j]]

\* C5: for every ProhibitedReactions table, prohibited_reactions() returns
\* exactly the reactions whose field is true, each once, in the order
\* Upvote, Downvote, Laugh, Hooray, Confused, Heart, whatever the order of
\* declaration; no field true gives the empty sequence; at most 6 elements.
C5_CanonicalOrder ==
    \A q \in 1..Len(out) :
        out[q].op = "prohibited_reactions" =>
            /\ IsDeclaredInCanonicalOrder(out[q].result, pdecl)
            /\ (\A r \in Reactions : ~DeclaredTrue(pdecl, r)) => out[q].result = <<>>

C5_Witness ==
    /\ pdecl = <<<<"heart", TRUE>>, <<"laugh", FALSE>>, <<"confused", TRUE>>,
                 <<"down_vote", TRUE>>>>
    /\ Len(out) >= 1
    /\ out[1].result = <<"Downvote", "Confused", "Heart">>

\* The entries of a section declared under exactly the identifier repo.
EntriesFor(section, repo) ==
    {i \in 1..Len(section) : section[i].key = repo}

\* C6: should_ffcp_auto_close(repo) is true iff fcp_behaviors has an entry
\* under exactly repo whose close was declared true, and
\* should_ffcp_auto_postpone(repo) is true iff that entry's postpone was
\* declared true; an omitted field and an absent repository give false.
C6_FcpExplicitTrueOnly ==
    \A q \in 1..Len(out) :
        /\ out[q].op = "should_ffcp_auto_close" =>
              (out[q].result = TRUE <=>
                  \E i \in EntriesFor(doc.fcp_behaviors.val, out[q].repo) :
                      doc.fcp_behaviors.val[i].close = Some(TRUE))
        /\ out[q].op = "should_ffcp_auto_postpone" =>
              (out[q].result = TRUE <=>
                  \E i \in EntriesFor(doc.fcp_behaviors.val, out[q].repo) :
                      doc.fcp_behaviors.val[i].postpone = Some(TRUE))
        /\ out[q].op \in {"should_ffcp_auto_close", "should_ffcp_auto_postpone"} =>
              out[q].result \in BOOLEAN

C6_Witness ==
    /\ Len(out) = 2
    /\ out[1].op = "should_ffcp_auto_close" /\ out[1].result = FALSE
    /\ out[2].op = "should_ffcp_auto_postpone" /\ out[2].result = TRUE
    /\ out[1].repo = out[2].repo
    /\ Len(doc.fcp_behaviors.val) = 2
    /\ \E i \in EntriesFor(doc.fcp_behaviors.val, out[1].repo) :
          doc.fcp_behaviors.val[i].close = None

\* The reactions a declared policy prohibits: those declared true, in
\* canonical order; none when the policy is omitted.
RECURSIVE InRankOrder(_, _, _)
InRankOrder(decl, rank, acc) ==
    IF rank > 6 THEN acc
    ELSE LET r == CHOOSE x \in Reactions : CanonicalRank[x] = rank IN
         InRankOrder(decl, rank + 1, IF DeclaredTrue(decl, r) THEN Append(acc, r) ELSE acc)

Prohibits(optDecl) ==
    IF optDecl.some THEN InRankOrder(optDecl.val, 1, <<>>) ELSE <<>>

\* C7: prohibited_issue_reactions(repo) is given by the issue policy and
\* prohibited_comment_reactions(repo) by the comment policy of the entry
\* declared under exactly repo; an absent repository or an omitted policy
\* gives the empty sequence.
C7_ReactionsPerPolicy ==
    \A q \in 1..Len(out) :
        LET section == doc.prohibited_reactions.val
            hits == IF "repo" \in DOMAIN out[q] THEN EntriesFor(section, out[q].repo) ELSE {}
        IN
        /\ out[q].op = "prohibited_issue_reactions" =>
              /\ hits = {} => out[q].result = <<>>
              /\ \A i \in hits : out[q].result = Prohibits(section[i].issue)
        /\ out[q].op = "prohibited_comment_reactions" =>
              /\ hits = {} => out[q].result = <<>>
              /\ \A i \in hits : out[q].result = Prohibits(section[i].comment)

C7_Witness ==
    /\ Len(out) = 2
    /\ out[1].op = "prohibited_issue_reactions"
    /\ out[1].result = <<"Downvote", "Confused", "Heart">>
    /\ out[2].op = "prohibited_comment_reactions"
    /\ out[2].result = <<"Downvote">>
    /\ out[1].repo = out[2].repo
    /\ Len(doc.prohibited_reactions.val) = 2

\* The labels an enumeration yielded.
LabelsOf(call) ==
    IF call.op = "teams"
    THEN [i \in 1..Len(call.result) |-> call.result[i][1]]
    ELSE call.result

\* C8: team_labels() and teams() yield every declared label exactly once in
\* ascending lexicographic order, teams() pairing each label with its team;
\* the two agree, and enumerating again yields the same sequence.
C8_TeamsAscending ==
    /\ \A q \in 1..Len(out) :
          out[q].op \in {"team_labels", "teams"} =>
             LET labels == LabelsOf(out[q]) IN
             /\ Len(labels) = Len(doc.teams.val)
             /\ \A i \in 1..Len(doc.teams.val) :
                   \E j \in 1..Len(labels) : labels[j] = doc.teams.val[i].key
             /\ \A i, j \in 1..Len(labels) : i < j => LexLT(labels[i], labels[j])
             /\ out[q].op = "teams" =>
                   \A j \in 1..Len(labels) :
                      \E i \in 1..Len(doc.teams.val) :
                         /\ doc.teams.val[i].key = labels[j]
                         /\ out[q].result[j][2].members = doc.teams.val[i].members.val
    /\ \A q, r \in 1..Len(out) :
          (out[q].op \in {"team_labels", "teams"} /\ out[r].op \in {"team_labels", "teams"}) =>
             LabelsOf(out[q]) = LabelsOf(out[r])

C8_Witness ==
    /\ DocParses(doc)
    /\ Len(doc.teams.val) = 2
    /\ doc.teams.val[1].key = <<2>>
    /\ doc.teams.val[2].key = <<1, 2>>
    /\ Len(out) = 2
    /\ out[1].op = "team_labels"
    /\ out[1].result = <<<<1, 2>>, <<2>>>>
    /\ out[2].op = "teams"

====
